---- MODULE Spec2Model ----
(***************************************************************************)
(* Remote Tool Gateway of adk-trading-chatbot: the MCP client (session     *)
(* handshake with retry/backoff and route failover, JSON-RPC invoker), the *)
(* argument normalizer, and the resilience wrappers, as a state machine.   *)
(***************************************************************************)
EXTENDS Integers, Sequences, FiniteSets, TLC

\* ------------------------------------------------------------------ bounds
NumCallers == 2      \* concurrent callers sharing one MCPClient
MaxCalls == 3        \* calls started on the client in one behaviour
NumTokens == 2       \* distinct session tokens the peer can hand out
MaxRetriesArg == 3   \* largest max_retries argument tried

\* ------------------------------------------------------- program constants
DefaultMaxRetries == 3   \* def initialize_session(self, max_retries: int = 3)
CollectMaxRetries == 3   \* load_mcp_tools: initialize_session(max_retries=3)

Callers == 1..NumCallers
Tokens == 1..NumTokens
\* Optional[str] session ids: None, the empty string, or a token
NoneTok == 0
EmptyTok == -1
Falsy(tok) == tok \in {NoneTok, EmptyTok}

\* MCPClient.ENDPOINTS = ["/mcp", "/"]
ENDPOINTS == <<"/mcp", "/">>
IsLast(e) == ENDPOINTS[e] = ENDPOINTS[Len(ENDPOINTS)]

\* ------------------------------------------------------------ JSON values
\* Python values decoded from JSON, tagged by type.
JNull == [t |-> "null"]
JBool(b) == [t |-> "bool", b |-> b]
JNum(n) == [t |-> "num", n |-> n]
JStr(s) == [t |-> "str", s |-> s]
JList(items) == [t |-> "list", items |-> items]
JDict(kv) == [t |-> "dict", kv |-> kv]
EmptyDict == JDict([k \in {} |-> JNull])

\* Python truthiness (`if result`, `not result`)
Truthy(v) ==
  CASE v.t = "null" -> FALSE
    [] v.t = "bool" -> v.b
    [] v.t = "num" -> v.n # 0
    [] v.t = "str" -> v.s # ""
    [] v.t = "list" -> v.items # <<>>
    [] v.t = "dict" -> DOMAIN v.kv # {}
    [] OTHER -> TRUE

\* substring test (`sub in s` on two str)
Contains(s, sub) ==
  \E i \in 1..(Len(s) - Len(sub) + 1) : SubSeq(s, i, i + Len(sub) - 1) = sub

\* `key in v` raises TypeError unless v is a dict, list or str
InRaises(v) == v.t \notin {"dict", "list", "str"}
\* value of `key in v` where it does not raise
PyIn(key, v) ==
  CASE v.t = "dict" -> key \in DOMAIN v.kv
    [] v.t = "list" -> \E i \in 1..Len(v.items) : v.items[i] = JStr(key)
    [] v.t = "str" -> Contains(v.s, key)
    [] OTHER -> FALSE

\* dict.get(key, default)
DictGet(d, key, default) == IF key \in DOMAIN d.kv THEN d.kv[key] ELSE default

\* Python str() of a decoded value (dicts and lists with at most one element)
RECURSIVE PyRepr(_)
PyRepr(v) ==
  CASE v.t = "null" -> "None"
    [] v.t = "bool" -> IF v.b THEN "True" ELSE "False"
    [] v.t = "num" -> ToString(v.n)
    [] v.t = "str" -> "'" \o v.s \o "'"
    [] v.t = "list" ->
         IF v.items = <<>> THEN "[]" ELSE "[" \o PyRepr(v.items[1]) \o "]"
    [] v.t = "dict" ->
         IF DOMAIN v.kv = {} THEN "{}"
         ELSE LET k == CHOOSE x \in DOMAIN v.kv : TRUE
              IN "{'" \o k \o "': " \o PyRepr(v.kv[k]) \o "}"
    [] OTHER -> "?"
PyStr(v) == IF v.t = "str" THEN v.s ELSE PyRepr(v)

\* --------------------------------------------------------- configuration
\* AgentConfig.mcp_server_url (default)
ServerUrl == "https://mcp-server-vietnam-stock-trading.onrender.com"

\* ------------------------------------------------------ the peer's replies
\* An HTTP exchange ends in a timeout, another transport error, or a response
Timeout(msg) == [k |-> "timeout", msg |-> msg]
NetErr(msg) == [k |-> "neterr", msg |-> msg]
Http(status, tok, body) == [k |-> "http", status |-> status, tok |-> tok, body |-> body]
Statuses == {200, 201, 404, 500}
\* a body: its content type and what the text holds
Garbage == [t |-> "garbage"]
NoData == [t |-> "nodata"]
Body(ctype, data) == [ctype |-> ctype, data |-> data]

\* MCPClient._parse_sse_response: the first "data: " line decoded, else None
ParseSseResponse(data) == IF data.t \in {"garbage", "nodata"} THEN JNull ELSE data
\* MCPClient._parse_response: SSE or plain JSON; None when undecodable
ParseResponse(body) ==
  IF body.ctype = "sse" THEN ParseSseResponse(body.data)
  ELSE IF body.data.t \in {"garbage", "nodata"} THEN JNull ELSE body.data

HsBodies ==
  { Body("json", JDict([result |-> EmptyDict])),
    Body("sse", JDict([result |-> EmptyDict])),
    Body("json", Garbage),
    Body("sse", NoData),
    Body("json", JDict([error |-> JDict([message |-> JStr("denied")])])),
    Body("json", JDict([error |-> JStr("denied")])),
    Body("json", JList(<<JStr("error")>>)),
    Body("json", JNum(5)) }
HsResponses ==
  {Timeout(""), NetErr("refused")}
    \cup {Http(s, tok, b) : s \in Statuses, tok \in Tokens \cup {NoneTok, EmptyTok},
                            b \in HsBodies}
AckResponses == {"sent", "failed"}

\* ------------------------------------------- ordered mappings (Python dict)
\* A dict whose order matters (kwargs, schema properties) is a sequence of
\* entries [k, v] with distinct keys, in insertion order.
KV(k, v) == [k |-> k, v |-> v]
OKeys(d) == {d[i].k : i \in 1..Len(d)}
OHas(d, k) == k \in OKeys(d)
OGet(d, k) == d[CHOOSE i \in 1..Len(d) : d[i].k = k].v
\* d[k] = v: an existing key keeps its place, a new key goes last
OSet(d, k, v) ==
  IF OHas(d, k) THEN [i \in 1..Len(d) |-> IF d[i].k = k THEN KV(k, v) ELSE d[i]]
  ELSE Append(d, KV(k, v))

\* --------------------------------------- MCPToolManager._process_arguments
\* _get_tool_param_mapping: alias -> canonical name, from the schema's shape,
\* overridden per tool name
SymbolsMapping == [symbol |-> "symbols", symbol_list |-> "symbols",
                   stocks |-> "symbols", stock |-> "symbols"]
SymbolMapping == [symbols |-> "symbol", symbol_list |-> "symbol",
                  stocks |-> "symbol", stock |-> "symbol"]
NoMapping == [k \in {} |-> ""]
GetToolParamMapping(properties, tool_name) ==
  IF tool_name = "get_price_board" THEN SymbolsMapping
  ELSE IF OHas(properties, "symbols") THEN SymbolsMapping
  ELSE IF OHas(properties, "symbol") THEN SymbolMapping
  ELSE NoMapping

\* lines 43-50: rewrite the keys of kwargs through the mapping
RECURSIVE NormalizeKeys(_, _, _)
NormalizeKeys(kwargs, tool_param_mapping, acc) ==
  IF kwargs = <<>> THEN acc
  ELSE LET key == Head(kwargs).k
           value == Head(kwargs).v
           normalized_key == IF key \in DOMAIN tool_param_mapping
                               THEN tool_param_mapping[key] ELSE key
       IN NormalizeKeys(Tail(kwargs), tool_param_mapping,
                        OSet(acc, normalized_key, value))

\* param_type == "array" or (isinstance(param_type, list) and "array" in param_type)
IsArrayType(param_type) ==
  \/ param_type = JStr("array")
  \/ param_type.t = "list" /\ PyIn("array", param_type)

\* lines 63-69: get_price_board's symbols
CoerceSymbols(param_value) ==
  CASE param_value.t = "str" -> JList(<<param_value>>)
    [] param_value.t = "list" -> param_value
    [] OTHER -> JList(<<JStr(PyStr(param_value))>>)
\* list(param_value) instead of [param_value]: a str is split into characters
CoerceArray_Split(param_value) ==
  CASE param_value.t = "str" ->
         JList([i \in 1..Len(param_value.s) |-> JStr(SubSeq(param_value.s, i, i))])
    [] param_value.t = "list" -> param_value
    [] OTHER -> JList(<<param_value>>)

\* lines 71-79: array parameters
CoerceArray(param_value) ==
  CASE param_value.t = "str" -> JList(<<param_value>>)
    [] param_value.t = "list" -> param_value
    [] OTHER -> JList(<<param_value>>)
\* lines 81-90: string parameters
CoerceString(param_value) ==
  CASE param_value.t = "null" -> JNull
    [] param_value.t = "list" ->
         IF Len(param_value.items) > 0 THEN JStr(PyStr(param_value.items[1]))
         ELSE JStr("")
    [] OTHER -> JStr(PyStr(param_value))

\* lines 53-93: one parameter of the normalized kwargs
ProcessParam(tool_name, properties, param_name, param_value) ==
  IF ~OHas(properties, param_name) THEN param_value
  ELSE LET param_type == DictGet(OGet(properties, param_name), "type", JNull) IN
       IF tool_name = "get_price_board" /\ param_name = "symbols"
         THEN CoerceSymbols(param_value)
       ELSE IF IsArrayType(param_type) THEN CoerceArray(param_value)
       ELSE IF param_type = JStr("string") THEN CoerceString(param_value)
       ELSE param_value

\* _process_arguments(tool_name, properties, tool_param_mapping, **kwargs)
ProcessArguments(tool_name, properties, tool_param_mapping, kwargs) ==
  LET normalized_kwargs == NormalizeKeys(kwargs, tool_param_mapping, <<>>) IN
  [i \in 1..Len(normalized_kwargs) |->
     KV(normalized_kwargs[i].k,
        ProcessParam(tool_name, properties, normalized_kwargs[i].k,
                     normalized_kwargs[i].v))]

\* schemas and arguments the normalizer is tried on
Prop(name, type) == KV(name, JDict([type |-> type]))
ArgProperties ==
  { <<Prop("symbols", JStr("array"))>>,
    <<Prop("symbol", JStr("string"))>>,
    <<Prop("symbol", JStr("string")), Prop("symbols", JStr("array"))>>,
    <<Prop("symbols", JStr("array")), Prop("symbol", JStr("string"))>>,
    <<Prop("symbol", JStr("array"))>>,
    <<Prop("symbols", JList(<<JStr("array"), JStr("null")>>))>>,
    <<Prop("tags", JStr("array")), Prop("limit", JStr("integer"))>> }
ArgTools == {"get_price_board", "get_company_overview"}
ArgKeys == {"symbols", "symbol", "stock", "tags"}
ArgValues ==
  { JStr("VCB"), JList(<<JStr("VCB"), JStr("FPT")>>), JList(<<>>), JNull, JNum(5) }

\* ------------------------------------------------------- Python str helpers
UpperChars == "ABCDEFGHIJKLMNOPQRSTUVWXYZ"
LowerChars == "abcdefghijklmnopqrstuvwxyz"
DigitChars == "0123456789"
CharIn(ch, chars) == \E i \in 1..Len(chars) : SubSeq(chars, i, i) = ch
LowerChar(ch) ==
  IF CharIn(ch, UpperChars)
    THEN LET i == CHOOSE j \in 1..Len(UpperChars) : SubSeq(UpperChars, j, j) = ch
         IN SubSeq(LowerChars, i, i)
  ELSE ch
\* str.lower()
RECURSIVE Lower(_)
Lower(str) ==
  IF str = "" THEN ""
  ELSE LowerChar(SubSeq(str, 1, 1)) \o Lower(SubSeq(str, 2, Len(str)))
\* len(s.strip()) == 0
IsBlank(str) == \A i \in 1..Len(str) : SubSeq(str, i, i) \in {" ", "\t", "\n"}
\* whether `def <str>(...)` compiles: str is an identifier
IsIdentifier(str) ==
  /\ str # ""
  /\ ~CharIn(SubSeq(str, 1, 1), DigitChars)
  /\ \A i \in 1..Len(str) :
       \/ SubSeq(str, i, i) = "_"
       \/ CharIn(SubSeq(str, i, i), UpperChars \o LowerChars \o DigitChars)
\* "\n".join(texts)
RECURSIVE JoinLines(_)
JoinLines(texts) ==
  IF Len(texts) = 1 THEN texts[1]
  ELSE texts[1] \o "\n" \o JoinLines(Tail(texts))
\* type(v).__name__
TypeName(v) ==
  CASE v.t = "null" -> "NoneType"
    [] v.t = "bool" -> "bool"
    [] v.t = "num" -> "int"
    [] v.t = "str" -> "str"
    [] v.t = "list" -> "list"
    [] OTHER -> "dict"

\* --------------------------------------------------- capability descriptors
\* a JSON object whose member order is used (inputSchema.properties)
JODict(items) == [t |-> "odict", items |-> items]
PropD(name, type, default) ==
  KV(name, JDict([type |-> JStr(type), default |-> default]))
Descriptor(name, props, required) ==
  JDict([name |-> JStr(name),
         inputSchema |-> JDict([properties |-> JODict(props),
                                required |-> JList(required)])])
IntradayDescriptor ==
  Descriptor("get_quote_intraday_price",
             << Prop("symbol", JStr("string")),
                PropD("page_size", "integer", JNum(100)),
                Prop("last_time", JStr("string")),
                PropD("output_format", "string", JStr("json")) >>,
             <<JStr("symbol")>>)
\* the same capability declaring its symbol only
IntradayNarrow ==
  Descriptor("get_quote_intraday_price", <<Prop("symbol", JStr("string"))>>,
             <<JStr("symbol")>>)
PriceBoardDescriptor ==
  Descriptor("get_price_board", <<Prop("symbols", JStr("array"))>>, <<JStr("symbols")>>)
OverviewDescriptor ==
  Descriptor("get_company_overview", <<Prop("symbol", JStr("string"))>>, <<>>)
\* capabilities declaring both symbols and symbol, neither required
PriceBoardBoth ==
  Descriptor("get_price_board",
             <<Prop("symbols", JStr("array")), Prop("symbol", JStr("string"))>>, <<>>)
NewsBoth ==
  Descriptor("get_company_news",
             <<Prop("symbol", JStr("string")), Prop("symbols", JStr("array"))>>, <<>>)

\* tool_schema.get("inputSchema", {}).get("properties", {}) as an ordered mapping
InputSchema(tool_schema) == DictGet(tool_schema, "inputSchema", EmptyDict)
Properties(tool_schema) ==
  LET properties == DictGet(InputSchema(tool_schema), "properties", EmptyDict)
  IN IF properties.t = "odict" THEN properties.items ELSE <<>>
Required(tool_schema) == DictGet(InputSchema(tool_schema), "required", JList(<<>>))

\* lines 188-232: the parameters of the generated def, in schema order; a
\* parameter has no default when it is required and declares none
Signature(tool_schema) ==
  LET properties == Properties(tool_schema) IN
  [i \in 1..Len(properties) |->
     LET default == DictGet(properties[i].v, "default", JNull)
         is_required == PyIn(properties[i].k, Required(tool_schema))
     IN [name |-> properties[i].k,
         nodefault |-> is_required /\ default = JNull,
         default |-> default]]

\* lines 161-232, 327: whether _create_mcp_tool_function raises: a schema part
\* that is no mapping (AttributeError), a `required` that is no container
\* (TypeError), or a generated def that does not compile (SyntaxError)
CreateRaises(tool_name, tool_schema) ==
  \/ InputSchema(tool_schema).t # "dict"
  \/ DictGet(InputSchema(tool_schema), "properties", EmptyDict).t \notin {"dict", "odict"}
  \/ \E i \in 1..Len(Properties(tool_schema)) : Properties(tool_schema)[i].v.t # "dict"
  \/ Properties(tool_schema) # <<>> /\ InRaises(Required(tool_schema))
  \/ tool_name.t # "str"
  \/ ~IsIdentifier(tool_name.s)
  \/ \E i \in 1..Len(Properties(tool_schema)) :
       ~IsIdentifier(Properties(tool_schema)[i].k)
  \/ LET sig == Signature(tool_schema) IN
     \E i, j \in 1..Len(sig) : i < j /\ ~sig[i].nodefault /\ sig[j].nodefault

\* the operations a tool list holds: kind, the __name__ it is published under,
\* the capability it invokes, and the descriptor it was synthesized from
Synth(tool_name, tool_schema) ==
  [kind |-> "synth", name |-> tool_name, tool |-> tool_name, schema |-> tool_schema]
Wrapped(original_tool) ==
  [original_tool EXCEPT !.kind = "wrapped", !.name = "smart_get_quote_intraday_price"]
Stub(tool_name) ==
  [kind |-> "stub", name |-> tool_name, tool |-> tool_name, schema |-> JNull]
Local(kind, tool_name) ==
  [kind |-> kind, name |-> tool_name, tool |-> tool_name, schema |-> JNull]
NoTool == [kind |-> "none", name |-> "", tool |-> "", schema |-> JNull]

\* outcomes of a piece of code: fall through to the next endpoint, return a
\* value, or raise
Next_ == [d |-> "next"]
NoOutcome == [d |-> "none"]
Return(v) == [d |-> "return", v |-> v]
Raise(exc, msg) == [d |-> "raise", exc |-> exc, msg |-> msg]

\* ------------------------------------------------ MCPToolManager.load_tools
\* lines 358-362: the loop over tools_list; an exception ends it and the
\* operations built so far are returned (lines 368-372)
RECURSIVE LoadLoop(_, _)
LoadLoop(tools_list, tools) ==
  IF tools_list = <<>> THEN tools
  ELSE LET tool == Head(tools_list) IN
       IF tool.t # "dict" THEN tools
       ELSE LET tool_name == DictGet(tool, "name", JNull) IN
            IF ~Truthy(tool_name) THEN LoadLoop(Tail(tools_list), tools)
            ELSE IF CreateRaises(tool_name, tool) THEN tools
            ELSE LoadLoop(Tail(tools_list), Append(tools, Synth(tool_name.s, tool)))

\* lines 339-372, given the outcome o of call_jsonrpc("tools/list")
LoadTools(o) ==
  IF o.d = "raise" THEN <<>>
  ELSE LET result == o.v IN
       IF InRaises(result) THEN <<>>
       ELSE IF PyIn("error", result) THEN <<>>
       ELSE IF result.t # "dict" THEN <<>>
       ELSE LET tools_list == DictGet(result, "tools", JList(<<>>)) IN
            IF ~Truthy(tools_list) THEN <<>>
            ELSE IF tools_list.t # "list" THEN <<>>
            ELSE LoadLoop(tools_list.items, <<>>)

\* wrap_tools_with_fallback
WrapToolsWithFallback(tools) ==
  [i \in 1..Len(tools) |->
     IF tools[i].name = "get_quote_intraday_price" THEN Wrapped(tools[i])
     ELSE tools[i]]

\* create_fallback_tools: common_mcp_tools and the value a stub returns (the
\* fixed sentences of message and suggestion are shortened to "...")
CommonMcpTools ==
  << "get_quote_intraday_price", "get_quote_history_price", "get_price_board",
     "get_company_overview", "get_company_news", "get_quote_price_depth" >>
CreateFallbackTools == [i \in 1..Len(CommonMcpTools) |-> Stub(CommonMcpTools[i])]
FallbackToolResult(tool_name, server_url) ==
  JDict([error |-> JStr("MCP server is currently unavailable. Tool '" \o tool_name
                        \o "' cannot be used."),
         message |-> JStr("... MCP Server URL: " \o server_url),
         tool |-> JStr(tool_name),
         suggestion |-> JStr("...")])

\* load_backend_tools and load_custom_tools
BackendToolNames ==
  << "create_transaction", "get_transaction_history", "get_transaction_stats",
     "get_user_profile", "get_ranking", "get_transaction_by_id",
     "cancel_transaction", "get_market_data", "get_stock_data", "get_all_stocks",
     "get_vn30_history", "suggest_stocks" >>
BackendTools == [i \in 1..Len(BackendToolNames) |-> Local("backend", BackendToolNames[i])]
CustomTools == <<Local("custom", "get_current_datetime")>>

\* collect_all_tools without the `if not mcp_tools` branch
CollectAllTools_NoFallback(mcp_tools) == mcp_tools \o BackendTools \o CustomTools

\* collect_all_tools, given what load_mcp_tools returned
CollectAllTools(mcp_tools) ==
  mcp_tools \o (IF mcp_tools = <<>> THEN CreateFallbackTools ELSE <<>>)
            \o BackendTools \o CustomTools

\* --------------------------------------------- calling a synthesized operation
\* Python binds keyword arguments to a signature: an unknown keyword or a
\* missing parameter without default raises TypeError
BindRaises(sig, kwargs) ==
  \/ \E k \in OKeys(kwargs) : \A i \in 1..Len(sig) : sig[i].name # k
  \/ \E i \in 1..Len(sig) : sig[i].nodefault /\ ~OHas(kwargs, sig[i].name)
\* lines 238-244: kwargs of the generated body, one entry per parameter
Bind(sig, kwargs) ==
  [i \in 1..Len(sig) |->
     KV(sig[i].name,
        IF OHas(kwargs, sig[i].name) THEN OGet(kwargs, sig[i].name)
        ELSE sig[i].default)]

\* params of a tools/call request
NoParams == [name |-> "", arguments |-> <<>>]
CallParams(tool_name, arguments) == [name |-> tool_name, arguments |-> arguments]
\* lines 246-262: the request a synthesized operation sends for bound kwargs
SynthParams(tool, kwargs) ==
  CallParams(tool.tool,
             ProcessArguments(tool.tool, Properties(tool.schema),
                              GetToolParamMapping(Properties(tool.schema), tool.tool),
                              kwargs))

\* lines 285-309 and 415-436: texts of a content list. typed tells whether an
\* item {"type": "text"} without text counts as an empty text (line 294)
RECURSIVE Texts(_, _)
Texts(content, typed) ==
  IF content = <<>> THEN <<>>
  ELSE LET item == Head(content)
           rest == Texts(Tail(content), typed)
       IN IF item.t = "dict" /\ "text" \in DOMAIN item.kv
            THEN <<item.kv["text"]>> \o rest
          ELSE IF typed /\ item.t = "dict" /\ DictGet(item, "type", JNull) = JStr("text")
            THEN <<JStr("")>> \o rest
          ELSE IF item.t = "str" THEN <<item>> \o rest
          ELSE rest
\* texts[0] returned whatever the number of texts
JoinTexts_First(texts) == Return(texts[1])

\* "\n".join(texts); a text that is no str raises TypeError
JoinTexts(texts) ==
  IF Len(texts) = 1 THEN Return(texts[1])
  ELSE IF \E i \in 1..Len(texts) : texts[i].t # "str"
    THEN Raise("TypeError", "sequence item: expected str instance")
  ELSE Return(JStr(JoinLines([i \in 1..Len(texts) |-> texts[i].s])))

\* `if 'content' in result: ... if 'text' in result: ... return result`
ReduceContent(result, typed) ==
  IF InRaises(result)
    THEN Raise("TypeError", "argument of type '" \o TypeName(result) \o "' is not iterable")
  ELSE IF PyIn("content", result) THEN
    IF result.t = "str" THEN Raise("TypeError", "string indices must be integers")
    ELSE IF result.t = "list" THEN Raise("TypeError", "list indices must be integers or slices, not str")
    ELSE LET content == result.kv["content"] IN
         IF content.t = "list" /\ Texts(content.items, typed) # <<>>
           THEN JoinTexts(Texts(content.items, typed))
         ELSE Return(content)
  ELSE IF PyIn("text", result) THEN
    IF result.t = "str" THEN Raise("TypeError", "string indices must be integers")
    ELSE IF result.t = "list" THEN Raise("TypeError", "list indices must be integers or slices, not str")
    ELSE Return(result.kv["text"])
  ELSE Return(result)

\* lines 264-283: the tagged error a synthesized operation returns
SynthError(tool_name, error_msg, code) ==
  JDict([error |-> JStr(error_msg), tool |-> JStr(tool_name), code |-> code])
SynthTextError(tool_name, error_msg) ==
  JDict([error |-> JStr(error_msg), tool |-> JStr(tool_name)])
\* the keywords looked for in result instead of result.lower()
SynthPost_CaseSensitive(tool_name, result) ==
  IF result.t = "dict" /\ "error" \in DOMAIN result.kv THEN
    LET error_msg == result.kv["error"] IN
    Return(SynthError(tool_name,
                      IF error_msg.t = "dict"
                        THEN PyStr(DictGet(error_msg, "message", JStr(PyStr(error_msg))))
                      ELSE PyStr(error_msg),
                      DictGet(result, "code", JNull)))
  ELSE IF result.t = "str"
          /\ (Contains(result.s, "error") \/ Contains(result.s, "failed")
              \/ IsBlank(result.s)) THEN
    Return(SynthTextError(tool_name,
                          IF IsBlank(result.s) THEN "Empty response" ELSE result.s))
  ELSE ReduceContent(result, TRUE)

\* lines 264-309: what a synthesized operation does with call_jsonrpc's result
SynthPost(tool_name, result) ==
  IF result.t = "dict" /\ "error" \in DOMAIN result.kv THEN
    LET error_msg == result.kv["error"] IN
    Return(SynthError(tool_name,
                      IF error_msg.t = "dict"
                        THEN PyStr(DictGet(error_msg, "message", JStr(PyStr(error_msg))))
                      ELSE PyStr(error_msg),
                      DictGet(result, "code", JNull)))
  ELSE IF result.t = "str"
          /\ (Contains(Lower(result.s), "error") \/ Contains(Lower(result.s), "failed")
              \/ IsBlank(result.s)) THEN
    Return(SynthTextError(tool_name,
                          IF IsBlank(result.s) THEN "Empty response" ELSE result.s))
  ELSE ReduceContent(result, TRUE)

\* ------------------------------------ MCPToolManager.wrap_intraday_price_tool
\* smart_get_quote_intraday_price(symbol, page_size=100, last_time=None,
\*                                output_format="json")
WrapperSignature ==
  << [name |-> "symbol", nodefault |-> TRUE, default |-> JNull],
     [name |-> "page_size", nodefault |-> FALSE, default |-> JNum(100)],
     [name |-> "last_time", nodefault |-> FALSE, default |-> JNull],
     [name |-> "output_format", nodefault |-> FALSE, default |-> JStr("json")] >>

\* lines 467-471: readings of datetime.now() and the wrapper's is_trading_hours
Clocks == {[is_weekend |-> w, hour |-> h] : w \in BOOLEAN, h \in {8, 9, 14, 15}}
IsTradingHours(now) == ~now.is_weekend /\ now.hour >= 9 /\ now.hour < 15

\* lines 483-506: whether the outcome of original_tool sends the wrapper to
\* _get_closing_price_fallback
NeedsFallback(o) ==
  \/ o.d = "raise"
  \/ o.v.t = "dict" /\ "error" \in DOMAIN o.v.kv
  \/ ~Truthy(o.v)
  \/ o.v.t = "str" /\ IsBlank(o.v.s)

\* one reading of datetime.now(): end_date and start_date (seven days before)
EndDate == "2024-11-09"
StartDate == "2024-11-02"
\* lines 394-406: the request of _get_closing_price_fallback
ClosingPriceParams(symbol, output_format) ==
  CallParams("get_quote_history_price",
             << KV("symbol", symbol), KV("start_date", JStr(StartDate)),
                KV("end_date", JStr(EndDate)), KV("interval", JStr("1D")),
                KV("output_format", output_format) >>)
\* lines 409-413, 439-443
ClosingPriceError(msg) ==
  JDict([error |-> JStr("Failed to get closing price: " \o msg),
         tool |-> JStr("get_quote_history_price"),
         fallback_from |-> JStr("get_quote_intraday_price")])
\* lines 408-443, given the outcome o of its call_jsonrpc
ClosingPriceResult(o) ==
  IF o.d = "raise" THEN ClosingPriceError(o.msg)
  ELSE LET result == o.v IN
       IF InRaises(result)
         THEN ClosingPriceError("argument of type '" \o TypeName(result)
                                \o "' is not iterable")
       ELSE IF PyIn("error", result) THEN
         IF result.t = "dict" THEN ClosingPriceError(PyStr(result.kv["error"]))
         ELSE ClosingPriceError("'" \o TypeName(result)
                                \o "' object has no attribute 'get'")
       ELSE LET reduced == ReduceContent(result, FALSE) IN
            IF reduced.d = "raise" THEN ClosingPriceError(reduced.msg)
            ELSE reduced.v

\* ------------------------------------------------------------------ state
VARIABLES
  session_id,   \* MCPClient.session_id
  calls,        \* calls started on the client
  cs,           \* per caller: the frame of its current call (fields below)
  tools,        \* the tool list the agent was built with (collect_all_tools)
  na,           \* the argument normalizer tried on its own: input and outputs
  current_user_id,  \* backend_tools._current_user_id
  rq            \* per chat request being handled: the frame of _run_agent

vars == <<session_id, calls, cs, tools, na, current_user_id, rq>>

Methods == {"tools/list", "tools/call"}

Pending == [k |-> "pending"]
RetTok(tok) == [k |-> "tok", tok |-> tok]
RetVal(v) == [k |-> "val", v |-> v]
Raised(exc) == [k |-> "raise", exc |-> exc]

\* one request as the peer sees it, and how the exchange ended
Req(m, e, tok, reply, hdr, params) ==
  [m |-> m, ep |-> ENDPOINTS[e], tok |-> tok, reply |-> reply, hdr |-> hdr,
   params |-> params]
\* resp.status_code of the response to an RPC request; 0 when none came
StatusCode(r) == IF r.k = "http" THEN r.status ELSE 0

\* A caller's frame before any call
IdleFrame ==
  [ pc |-> "idle",            \* idle, hs_post, hs_sleep, hs_ack, rpc_post, done
    op |-> "none",            \* the operation called: init, rpc, collect, tool
    max_retries |-> DefaultMaxRetries,  \* initialize_session's argument
    method |-> "none",        \* call_jsonrpc's method
    attempt |-> 0,            \* initialize_session's loop variable
    endpoint |-> 1,           \* index into ENDPOINTS of the loop variable
    held |-> NoneTok,         \* initialize_session's local session_id
    params |-> NoParams,      \* call_jsonrpc's params
    tool |-> NoTool,          \* the operation of the tool list being called
    kwargs |-> <<>>,          \* the keyword arguments bound by the operation
    called |-> <<>>,          \* the keyword arguments the operation was called with
    phase |-> "none",         \* of a tool call: primary, secondary
    is_trading_hours |-> FALSE,  \* the wrapper's local variable
    ret |-> Pending,          \* what the call returned
    traced |-> FALSE,         \* whether the history fields below are kept
    entry |-> NoneTok,        \* self.session_id as the call found it
    sent |-> <<>>,            \* requests sent since the current attempt began
    statuses |-> <<>>,        \* status of the response on each RPC route tried
    hsReqs |-> 0,             \* initialize requests the call has sent
    allTimeout |-> TRUE,      \* every initialize request so far timed out
    slept |-> 0,              \* time the call spent in time.sleep
    first |-> NoOutcome,      \* outcome of the operation's own call_jsonrpc
    primary |-> NoOutcome,    \* outcome of the wrapper's original_tool call
    second |-> NoOutcome,     \* outcome of the fallback's call_jsonrpc
    nsecond |-> 0 ]           \* calls of _get_closing_price_fallback

\* chat requests handled at a time, and Python's None for a user id
NumRequests == 2
Requests == 1..NumRequests
NoUserId == "None"
\* the frame of _run_agent before a request arrives
IdleRequest ==
  [ pc |-> "idle",            \* idle, running (the agent's thread), done
    user_id |-> NoUserId,     \* _run_agent's local user_id
    tool |-> "none",          \* the backend tool the agent called last
    userId |-> NoUserId,      \* the userId argument of that call
    acted |-> NoUserId ]      \* the user id that call resolved

\* the normalizer's record before it is tried
NoArgs == [stage |-> "none", tool_name |-> "", properties |-> <<>>, kwargs |-> <<>>,
           out |-> <<>>, again |-> <<>>]

Init ==
  /\ session_id = NoneTok
  /\ calls = 0
  /\ cs = [c \in Callers |-> IdleFrame]
  /\ tools = <<>>
  /\ na = NoArgs
  /\ current_user_id = NoUserId
  /\ rq = [r \in Requests |-> IdleRequest]

\* --------------------------------------------- MCPClient.initialize_session
\* How one initialize response is classified (lines 121-154, 197-228):
\*   next    try the next endpoint            (continue)
\*   fail    give up the whole call           (return None)
\*   timeout httpx timeout, caught at 197     (retry after backoff)
\*   except  any other exception, caught at 218 (retry after backoff)
\*   accept  record the token
HsDecision(r, last) ==
  IF r.k = "timeout" THEN "timeout"
  ELSE IF r.k = "neterr" THEN "except"
  ELSE IF r.status = 404 /\ ~last THEN "next"
  ELSE IF r.status # 200 THEN (IF ~last THEN "next" ELSE "fail")
  ELSE IF Falsy(r.tok) THEN (IF ~last THEN "next" ELSE "fail")
  ELSE LET result == ParseResponse(r.body) IN
       IF ~Truthy(result) THEN "accept"
       ELSE IF InRaises(result) THEN "except"                 \* TypeError
       ELSE IF ~PyIn("error", result) THEN "accept"
       ELSE IF result.t # "dict" THEN "except"                \* result["error"]
       ELSE IF result.kv["error"].t # "dict" THEN "except"    \* .get on a non-dict
       ELSE "fail"

\* what the log `sent` keeps of an initialize reply: how the exchange ended
\* (timeout, except), or what the response was (404, another status that is
\* not 200, no token header, an error envelope), or that it was accepted
HsClass(r, last) ==
  IF r.k = "timeout" THEN "timeout"
  ELSE IF r.k = "neterr" THEN "except"
  ELSE IF r.status = 404 THEN "404"
  ELSE IF r.status # 200 THEN "status"
  ELSE IF Falsy(r.tok) THEN "notoken"
  ELSE LET result == ParseResponse(r.body) IN
       IF result.t = "dict" /\ "error" \in DOMAIN result.kv THEN "envelope"
       ELSE HsDecision(r, last)
\* the token header of a response
TokenHeader(r) == IF r.k = "http" THEN r.tok ELSE NoneTok

\* wait_time = 2 * attempt instead of 2 ** attempt
WaitTime_Linear(a) == 2 * a
\* attempt < max_retries instead of attempt < max_retries - 1
RetriesLeft_OffByOne(a, n) == a < n

\* the backoff delay after a failed attempt (wait_time = 2**attempt)
WaitTime(a) == 2 ^ a
\* whether another attempt follows a failed one (attempt < max_retries - 1)
RetriesLeft(a, n) == a < n - 1

\* -------------------------------------------------- MCPClient.call_jsonrpc
\* text of a response, as e.response.text shows it
RawText(body) ==
  CASE body.data.t = "garbage" -> "<html>"
    [] body.data.t = "nodata" -> ": ping"
    [] OTHER -> PyRepr(body.data)

\* the tagged error values call_jsonrpc builds
ErrSession(m) ==
  JDict([error |-> JStr("Failed to initialize MCP session"), method |-> JStr(m)])
ErrParse(m) ==
  JDict([error |-> JStr("Failed to parse response"), method |-> JStr(m)])
ErrRemote(msg, code, m) ==
  JDict([error |-> msg, code |-> code, method |-> JStr(m)])
ErrHttp(status, text, m, e) ==
  JDict([error |-> JStr("HTTP " \o ToString(status) \o ": " \o text),
         method |-> JStr(m), endpoint |-> JStr(ENDPOINTS[e])])
ErrUnreachable(m) ==
  JDict([error |-> JStr("Failed to connect to MCP server"), method |-> JStr(m),
         note |-> JStr("Tried endpoints: ['/mcp', '/']")])
ErrException(msg, m) ==
  JDict([error |-> JStr(msg), method |-> JStr(m),
         note |-> JStr("Failed to call MCP server at " \o ServerUrl)])

\* lines 278-309: the statements of the inner try, for one response
RpcTry(r, last, m) ==
  IF r.k = "timeout" THEN Raise("TimeoutException", r.msg)
  ELSE IF r.k = "neterr" THEN Raise("ConnectError", r.msg)
  ELSE IF r.status = 404 /\ ~last THEN Next_
  ELSE IF r.status \notin 200..299 THEN Raise("HTTPStatusError", "")  \* raise_for_status
  ELSE LET result == ParseResponse(r.body) IN
       IF ~Truthy(result) THEN Return(ErrParse(m))
       ELSE IF InRaises(result)
         THEN Raise("TypeError", "argument of type is not iterable")
       ELSE IF PyIn("error", result) THEN
         IF result.t # "dict"
           THEN Raise("TypeError", "indices must be integers")
         ELSE LET error_obj == result.kv["error"] IN
              IF error_obj.t = "dict"
                THEN Return(ErrRemote(DictGet(error_obj, "message", JStr(PyStr(error_obj))),
                                      DictGet(error_obj, "code", JNull), m))
              ELSE Return(ErrRemote(JStr(PyStr(error_obj)), JNull, m))
       ELSE IF result.t # "dict"
         THEN Raise("AttributeError", "object has no attribute 'get'")
       ELSE Return(DictGet(result, "result", result))

\* lines 311-321: except httpx.HTTPStatusError around one endpoint
RpcInnerExcept(o, r, last, m, e) ==
  IF o.d = "raise" /\ o.exc = "HTTPStatusError"
    THEN IF r.status = 404 /\ ~last THEN Next_
         ELSE Return(ErrHttp(r.status, RawText(r.body), m, e))
  ELSE o

\* an outer handler that catches the transport's exceptions only
RpcOuterExcept_HttpOnly(o, m) ==
  IF o.d = "raise" /\ o.exc \in {"TimeoutException", "ConnectError", "HTTPStatusError"}
    THEN Return(ErrException(o.msg, m))
  ELSE o

\* lines 329-334: except Exception around the whole loop
RpcOuterExcept(o, m) ==
  IF o.d = "raise" THEN Return(ErrException(o.msg, m)) ELSE o

\* what call_jsonrpc does with the response of endpoint e
RpcReply(r, e, m) ==
  RpcOuterExcept(RpcInnerExcept(RpcTry(r, IsLast(e), m), r, IsLast(e), m, e), m)

\* whether a reply is a failure of the call: no response, a status outside the
\* success class, an undecodable body, a body that is no JSON object, or an
\* error envelope
RpcClass(r) ==
  IF r.k # "http" THEN "failure"
  ELSE IF r.status \notin 200..299 THEN "failure"
  ELSE LET v == ParseResponse(r.body) IN
       IF v.t # "dict" THEN "failure"
       ELSE IF "error" \in DOMAIN v.kv THEN "failure"
       ELSE "success"

\* decoded bodies a peer may answer an RPC with
RpcBodies ==
  { Body("json", JDict([result |-> JDict([value |-> JStr("a")])])),
    Body("sse", JDict([result |-> JStr("text")])),
    Body("json", JDict([result |-> JNull])),
    Body("json", JDict([id |-> JNum(1)])),
    Body("json", Garbage),
    Body("sse", NoData),
    Body("json", EmptyDict),
    Body("json", JDict([error |-> JDict([message |-> JStr("denied"), code |-> JNum(7)])])),
    Body("json", JDict([error |-> JDict([code |-> JNum(7)])])),
    Body("json", JDict([error |-> JStr("boom")])),
    Body("json", JDict([error |-> JNull])),
    Body("json", JList(<<JStr("error")>>)),
    Body("json", JList(<<JNum(1)>>)),
    Body("json", JNum(5)),
    Body("json", JBool(TRUE)),
    Body("json", JStr("error text")),
    Body("json", JStr("plain")) }
RpcResponses ==
  {Timeout(""), Timeout("timed out"), NetErr("refused")}
    \cup {Http(s, NoneTok, b) : s \in {200, 201}, b \in RpcBodies}
    \cup {Http(s, NoneTok, Body("json", Garbage)) : s \in {404, 500}}

\* the replies tried when callers run concurrently
ConcHsResponses ==
  {Timeout("")}
    \cup {Http(s, NoneTok, Body("json", Garbage)) : s \in {404, 500}}
    \cup {Http(200, tok, Body("json", JDict([result |-> EmptyDict]))) : tok \in Tokens}
ConcRpcResponses ==
  { Timeout(""),
    Http(404, NoneTok, Body("json", Garbage)),
    Http(200, NoneTok, Body("json", JDict([result |-> JStr("text")]))),
    Http(200, NoneTok, Body("json", JDict([error |-> JStr("boom")]))) }

\* ------------------------------------------------------------ control flow
\* Each operator gives a caller's frame after a piece of code ran; sid is
\* self.session_id as the code reads it.

\* call_jsonrpc without the `if not self.session_id` block
EnterRpc_NoEnsure(s, sid, m, params) ==
  [s EXCEPT !.method = m, !.params = params, !.pc = "rpc_post", !.endpoint = 1]

\* call_jsonrpc(method = m, params) entered (lines 249-256)
EnterRpc(s, sid, m, params) ==
  IF Falsy(sid)
    THEN [s EXCEPT !.method = m, !.params = params,
                   !.max_retries = DefaultMaxRetries,
                   !.pc = "hs_post", !.attempt = 0, !.endpoint = 1]
  ELSE [s EXCEPT !.method = m, !.params = params, !.pc = "rpc_post", !.endpoint = 1]

\* the call ends: it returned a value or raised
Done(s, o) ==
  [s EXCEPT !.ret = IF o.d = "return" THEN RetVal(o.v) ELSE Raised(o.exc),
            !.pc = "done"]

\* collect_all_tools returns (tool_collector.py lines 196-225)
CollectReturn(s, mcp_tools) ==
  [s EXCEPT !.ret = [k |-> "tools", tools |-> CollectAllTools(mcp_tools)],
            !.pc = "done"]

\* _get_closing_price_fallback returns, o being the outcome of its call_jsonrpc
AfterSecondary(s, o) ==
  Done([s EXCEPT !.second = IF s.traced THEN o ELSE @], Return(ClosingPriceResult(o)))

\* the wrapper calling _get_closing_price_fallback(symbol) without output_format
EnterFallback_DefaultFormat(s, sid) ==
  EnterRpc([s EXCEPT !.phase = "secondary", !.nsecond = @ + 1], sid, "tools/call",
           ClosingPriceParams(OGet(s.kwargs, "symbol"), JStr("json")))

\* the wrapper calls _get_closing_price_fallback(symbol, output_format)
EnterFallback(s, sid) ==
  EnterRpc([s EXCEPT !.phase = "secondary", !.nsecond = @ + 1], sid, "tools/call",
           ClosingPriceParams(OGet(s.kwargs, "symbol"), OGet(s.kwargs, "output_format")))

\* a wrapper that also falls back whenever the market is closed
AfterPrimary_ClosedMarket(s, o, sid) ==
  IF s.tool.kind = "wrapped"
    THEN LET s1 == [s EXCEPT !.primary = IF s.traced THEN o ELSE @] IN
         IF NeedsFallback(o) \/ ~s.is_trading_hours THEN EnterFallback(s1, sid)
         ELSE Done(s1, o)
  ELSE Done(s, o)

\* a synthesized operation ends with outcome o: its caller is the application,
\* or the intraday wrapper (lines 483-506)
AfterPrimary(s, o, sid) ==
  IF s.tool.kind = "wrapped"
    THEN LET s1 == [s EXCEPT !.primary = IF s.traced THEN o ELSE @] IN
         IF NeedsFallback(o) THEN EnterFallback(s1, sid) ELSE Done(s1, o)
  ELSE Done(s, o)

\* call_jsonrpc ends with outcome o, and its caller goes on
RpcDone(s, o, sid) ==
  LET s1 == [s EXCEPT !.first = IF s.traced /\ s.phase # "secondary" THEN o ELSE @] IN
  CASE s.op = "collect" -> CollectReturn(s1, WrapToolsWithFallback(LoadTools(o)))
    [] s.op = "tool" /\ s.phase = "primary" ->
         AfterPrimary(s1, IF o.d = "return" THEN SynthPost(s.tool.tool, o.v) ELSE o, sid)
    [] s.op = "tool" /\ s.phase = "secondary" -> AfterSecondary(s1, o)
    [] OTHER -> Done(s1, o)

\* initialize_session returns tok: to call_jsonrpc (lines 251-256), to
\* load_mcp_tools (tool_collector.py lines 91-105), or to the application
HsReturn(s, tok, sid) ==
  IF s.method # "none"
    THEN IF Falsy(tok) THEN RpcDone(s, Return(ErrSession(s.method)), sid)
         ELSE [s EXCEPT !.pc = "rpc_post", !.endpoint = 1]
  ELSE IF s.op = "collect"
    THEN IF Falsy(tok) THEN CollectReturn(s, <<>>)
         ELSE EnterRpc(s, sid, "tools/list", NoParams)
  ELSE [s EXCEPT !.ret = RetTok(tok), !.pc = "done"]

\* initialize_session without the `if self.session_id` shortcut
EnterInit_NoCache(s, sid) ==
  IF s.max_retries <= 0 THEN HsReturn(s, NoneTok, sid)
  ELSE [s EXCEPT !.pc = "hs_post", !.attempt = 0, !.endpoint = 1]

\* initialize_session entered (lines 90-94)
EnterInit(s, sid) ==
  IF ~Falsy(sid) THEN HsReturn(s, sid, sid)
  ELSE IF s.max_retries <= 0 THEN HsReturn(s, NoneTok, sid)
  ELSE [s EXCEPT !.pc = "hs_post", !.attempt = 0, !.endpoint = 1]

\* an accepted reply handled without `return session_id`: the attempt loop
\* goes on as after a failure
AfterHsReply_NoReturn(s, r, sid) ==
  LET last == IsLast(s.endpoint)
      d == HsDecision(r, last)
      s1 == IF ~s.traced THEN s
            ELSE [s EXCEPT !.sent = Append(@, Req("initialize", s.endpoint, NoneTok,
                                HsClass(r, last), TokenHeader(r),
                                NoParams)),
                           !.hsReqs = @ + 1,
                           !.allTimeout = @ /\ d = "timeout"]
      s2 == IF d = "accept" THEN [s1 EXCEPT !.held = r.tok] ELSE s1
  IN CASE d = "next" -> [s2 EXCEPT !.endpoint = @ + 1]
       [] d = "fail" -> HsReturn(s2, NoneTok, sid)
       [] OTHER ->
            IF RetriesLeft(s.attempt, s.max_retries)
              THEN [s2 EXCEPT !.pc = "hs_sleep"]
            ELSE HsReturn(s2, s2.held, sid)

\* what follows one initialize reply (lines 121-157, 178-228)
AfterHsReply(s, r, sid) ==
  LET last == IsLast(s.endpoint)
      d == HsDecision(r, last)
      s1 == IF ~s.traced THEN s
            ELSE [s EXCEPT !.sent = Append(@, Req("initialize", s.endpoint, NoneTok,
                                HsClass(r, last), TokenHeader(r),
                                NoParams)),
                           !.hsReqs = @ + 1,
                           !.allTimeout = @ /\ d = "timeout"]
  IN CASE d = "next" -> [s1 EXCEPT !.endpoint = @ + 1]
       [] d = "fail" -> HsReturn(s1, NoneTok, sid)
       [] d \in {"timeout", "except"} ->
            IF RetriesLeft(s.attempt, s.max_retries)
              THEN [s1 EXCEPT !.pc = "hs_sleep"]
            ELSE HsReturn(s1, NoneTok, sid)
       [] d = "accept" -> [s1 EXCEPT !.held = r.tok, !.pc = "hs_ack"]

\* what follows one RPC reply (lines 278-334)
AfterRpcReply(s, r, sid) ==
  LET o == RpcReply(r, s.endpoint, s.method)
      s1 == IF ~s.traced THEN s
            ELSE [s EXCEPT !.sent = Append(@, Req(s.method, s.endpoint, sid,
                                                  RpcClass(r), NoneTok, s.params)),
                           !.statuses = Append(@, StatusCode(r))]
  IN IF o.d = "next" THEN [s1 EXCEPT !.endpoint = @ + 1] ELSE RpcDone(s1, o, sid)

\* an operation of the tool list is called with keyword arguments kwargs when
\* the clock reads now
CallTool(s, tool, kwargs, now, sid) ==
  LET s1 == [s EXCEPT !.tool = tool, !.phase = "primary",
                      !.called = IF s.traced THEN kwargs ELSE @] IN
  CASE tool.kind = "stub" -> Done(s1, Return(FallbackToolResult(tool.tool, ServerUrl)))
    [] tool.kind = "synth" ->
         IF BindRaises(Signature(tool.schema), kwargs)
           THEN Done(s1, Raise("TypeError", "unexpected or missing argument"))
         ELSE LET bound == Bind(Signature(tool.schema), kwargs) IN
              EnterRpc([s1 EXCEPT !.kwargs = bound], sid, "tools/call",
                       SynthParams(tool, bound))
    [] tool.kind = "wrapped" ->
         IF BindRaises(WrapperSignature, kwargs)
           THEN Done(s1, Raise("TypeError", "unexpected or missing argument"))
         ELSE LET bound == Bind(WrapperSignature, kwargs)
                  s2 == [s1 EXCEPT !.kwargs = bound,
                                   !.is_trading_hours = IsTradingHours(now)]
              IN IF BindRaises(Signature(tool.schema), bound)
                   THEN AfterPrimary(s2, Raise("TypeError", "unexpected keyword argument"),
                                     sid)
                 ELSE EnterRpc(s2, sid, "tools/call",
                               SynthParams(tool, Bind(Signature(tool.schema), bound)))

\* ---------------------------------------------------------------- actions
Quiet(c) == \A d \in Callers \ {c} : cs[d].pc = "idle"

\* the frame of a new call; the history of caller 1's calls is kept
NewFrame(c, o) ==
  IF c = 1 THEN [IdleFrame EXCEPT !.op = o, !.traced = TRUE, !.entry = session_id]
  ELSE [IdleFrame EXCEPT !.op = o]

\* a caller calls initialize_session(max_retries = n)
StartInit(c, n) ==
  /\ cs[c].pc = "idle"
  /\ calls < MaxCalls
  /\ calls' = calls + 1
  /\ cs' = [cs EXCEPT ![c] =
        EnterInit([NewFrame(c, "init") EXCEPT !.max_retries = n], session_id)]
  /\ UNCHANGED <<session_id, tools, na, current_user_id, rq>>

\* a caller calls call_jsonrpc(method = m)
StartRpc(c, m) ==
  /\ cs[c].pc = "idle"
  /\ calls < MaxCalls
  /\ calls' = calls + 1
  /\ cs' = [cs EXCEPT ![c] = EnterRpc(NewFrame(c, "rpc"), session_id, m, NoParams)]
  /\ UNCHANGED <<session_id, tools, na, current_user_id, rq>>

\* a caller calls collect_all_tools: load_mcp_tools starts with
\* initialize_session(max_retries=3)
StartCollect(c) ==
  /\ cs[c].pc = "idle"
  /\ calls < MaxCalls
  /\ calls' = calls + 1
  /\ cs' = [cs EXCEPT ![c] =
        EnterInit([NewFrame(c, "collect") EXCEPT !.max_retries = CollectMaxRetries],
                  session_id)]
  /\ UNCHANGED <<session_id, tools, na, current_user_id, rq>>

\* a caller calls the i-th operation of the tool list
StartTool(c, i, kwargs, now) ==
  /\ cs[c].pc = "idle"
  /\ calls < MaxCalls
  /\ i \in 1..Len(tools)
  /\ tools[i].kind \in {"stub", "synth", "wrapped"}
  /\ calls' = calls + 1
  /\ cs' = [cs EXCEPT ![c] = CallTool(NewFrame(c, "tool"), tools[i], kwargs,
                                         now, session_id)]
  /\ UNCHANGED <<session_id, tools, na, current_user_id, rq>>

\* self.session_id = session_id placed before the response is parsed: every
\* success response that carries a token is recorded
HsPost_WriteBeforeParse(c, replies) ==
  /\ cs[c].pc = "hs_post"
  /\ \E r \in replies :
       LET sid == IF r.k = "http" /\ r.status = 200 /\ ~Falsy(r.tok)
                    THEN r.tok ELSE session_id
       IN /\ session_id' = sid
          /\ cs' = [cs EXCEPT ![c] = AfterHsReply(cs[c], r, sid)]
  /\ UNCHANGED <<calls, tools, na, current_user_id, rq>>

\* lines 113-157, 178-228: one initialize request and what follows its reply
HsPost(c, replies) ==
  /\ cs[c].pc = "hs_post"
  /\ \E r \in replies :
       LET sid == IF HsDecision(r, IsLast(cs[c].endpoint)) = "accept"
                    THEN r.tok ELSE session_id
       IN /\ session_id' = sid
          /\ cs' = [cs EXCEPT ![c] = AfterHsReply(cs[c], r, sid)]
  /\ UNCHANGED <<calls, tools, na, current_user_id, rq>>

\* lines 185-191, 203-209, 220-226: time.sleep(wait_time); continue
HsSleep(c) ==
  /\ cs[c].pc = "hs_sleep"
  /\ cs' = [cs EXCEPT ![c] =
        [@ EXCEPT !.slept = IF cs[c].traced THEN @ + WaitTime(cs[c].attempt) ELSE @,
                  !.sent = <<>>,
                  !.attempt = @ + 1, !.endpoint = 1, !.pc = "hs_post"]]
  /\ UNCHANGED <<session_id, calls, tools, na, current_user_id, rq>>

\* lines 190, 208, 225: time.sleep(wait_time) is interrupted by an exception
\* that is no Exception (KeyboardInterrupt, SystemExit): no handler of the
\* client catches it and the call is aborted
Abort(c) ==
  /\ cs[c].pc = "hs_sleep"
  /\ cs' = [cs EXCEPT ![c] = Done(cs[c], Raise("KeyboardInterrupt", ""))]
  /\ UNCHANGED <<session_id, calls, tools, na, current_user_id, rq>>

\* the notification posted to the first endpoint whatever route gave the token
HsAck_PrimaryRoute(c) ==
  /\ cs[c].pc = "hs_ack"
  /\ \E a \in AckResponses :
       LET s == cs[c]
           s1 == IF ~s.traced THEN s
                 ELSE [s EXCEPT !.sent = Append(@, Req("notifications/initialized",
                                             1, s.held, a, NoneTok, NoParams))]
       IN cs' = [cs EXCEPT ![c] = HsReturn(s1, s.held, session_id)]
  /\ UNCHANGED <<session_id, calls, tools, na, current_user_id, rq>>

\* the notification sent outside its own try block: a failure to send it is
\* caught by the handlers of the attempt loop (lines 197-228)
HsAck_Unguarded(c) ==
  /\ cs[c].pc = "hs_ack"
  /\ \E a \in AckResponses :
       LET s == cs[c]
           s1 == IF ~s.traced THEN s
                 ELSE [s EXCEPT !.sent = Append(@, Req("notifications/initialized",
                                             s.endpoint, s.held, a, NoneTok, NoParams))]
       IN cs' = [cs EXCEPT ![c] =
            IF a = "sent" THEN HsReturn(s1, s.held, session_id)
            ELSE IF RetriesLeft(s.attempt, s.max_retries) THEN [s1 EXCEPT !.pc = "hs_sleep"]
            ELSE HsReturn(s1, NoneTok, session_id)]
  /\ UNCHANGED <<session_id, calls, tools, na, current_user_id, rq>>

\* lines 159-176: the initialized notification, then return session_id
HsAck(c) ==
  /\ cs[c].pc = "hs_ack"
  /\ \E a \in AckResponses :
       LET s == cs[c]
           s1 == IF ~s.traced THEN s
                 ELSE [s EXCEPT !.sent = Append(@, Req("notifications/initialized",
                                             s.endpoint, s.held, a, NoneTok, NoParams))]
       IN cs' = [cs EXCEPT ![c] = HsReturn(s1, s.held, session_id)]
  /\ UNCHANGED <<session_id, calls, tools, na, current_user_id, rq>>

\* lines 269-327: one RPC request and what follows its reply
RpcPost(c, replies) ==
  /\ cs[c].pc = "rpc_post"
  /\ \E r \in replies :
       cs' = [cs EXCEPT ![c] = AfterRpcReply(cs[c], r, session_id)]
  /\ UNCHANGED <<session_id, calls, tools, na, current_user_id, rq>>

\* the caller takes the result and its frame is gone; the result of
\* collect_all_tools becomes the agent's tool list
Finish(c) ==
  /\ cs[c].pc = "done"
  /\ cs' = [cs EXCEPT ![c] = IdleFrame]
  /\ tools' = IF cs[c].ret.k = "tools" THEN cs[c].ret.tools ELSE tools
  /\ UNCHANGED <<session_id, calls, na, current_user_id, rq>>

\* calls on the client made one after the other
SeqInit(c, n) == Quiet(c) /\ StartInit(c, n)
SeqRpc(c, m) == Quiet(c) /\ StartRpc(c, m)

Next ==
  \E c \in Callers :
    \/ \E n \in 0..MaxRetriesArg : SeqInit(c, n)
    \/ \E m \in Methods : SeqRpc(c, m)
    \/ HsPost(c, HsResponses)
    \/ HsSleep(c)
    \/ HsAck(c)
    \/ RpcPost(c, RpcResponses)
    \/ Finish(c)
Spec == Init /\ [][Next]_vars

\* the same calls, any of which may be aborted while it waits on backoff
NextAbort ==
  \E c \in Callers :
    \/ \E n \in 0..MaxRetriesArg : SeqInit(c, n)
    \/ \E m \in Methods : SeqRpc(c, m)
    \/ HsPost(c, HsResponses)
    \/ HsSleep(c)
    \/ Abort(c)
    \/ HsAck(c)
    \/ RpcPost(c, RpcResponses)
    \/ Finish(c)
SpecAbort == Init /\ [][NextAbort]_vars

\* callers run concurrently (asyncio.to_thread in _run_agent), each making the
\* calls the application makes
NextConc ==
  \E c \in Callers :
    \/ StartInit(c, DefaultMaxRetries)
    \/ \E m \in Methods : StartRpc(c, m)
    \/ HsPost(c, ConcHsResponses)
    \/ HsSleep(c)
    \/ HsAck(c)
    \/ RpcPost(c, ConcRpcResponses)
    \/ Finish(c)
SpecConc == Init /\ [][NextConc]_vars

\* ---------------------------------------------- the agent and its tool list
\* results a peer may give for tools/list
ListResults ==
  { JDict([tools |-> JList(<<IntradayDescriptor, PriceBoardDescriptor>>)]),
    JDict([tools |-> JList(<<IntradayNarrow, OverviewDescriptor>>)]),
    JDict([tools |-> JList(<<PriceBoardBoth, NewsBoth>>)]),
    JDict([tools |-> JList(<<>>)]),
    EmptyDict,
    JDict([tools |-> JList(<<PriceBoardDescriptor, JStr("junk"), OverviewDescriptor>>)]),
    JDict([tools |-> JList(<<JDict([description |-> JStr("unnamed")]),
                             OverviewDescriptor>>)]),
    JDict([tools |-> JList(<<OverviewDescriptor,
                             Descriptor("get-price", <<>>, <<>>)>>)]),
    JDict([tools |-> JStr("none")]),
    JStr("no tools"),
    JNull }
\* results a peer may give for tools/call
TextItem(text) == JDict([type |-> JStr("text"), text |-> JStr(text)])
CallResults ==
  { JDict([content |-> JList(<<TextItem("a")>>)]),
    JDict([content |-> JList(<<JDict([text |-> JStr("a")]), TextItem("b")>>)]),
    JDict([content |-> JList(<<>>)]),
    JDict([content |-> JList(<<JDict([type |-> JStr("image")])>>)]),
    JDict([content |-> JStr("c")]),
    JDict([text |-> JStr("t")]),
    JDict([value |-> JStr("a")]),
    EmptyDict,
    JStr("plain"),
    JStr(" "),
    JStr(""),
    JStr("Request FAILED"),
    JStr("the content"),
    JList(<<JNum(1)>>),
    JNull,
    JNum(5) }
Answer(result) == Http(200, NoneTok, Body("json", JDict([result |-> result])))
ErrorAnswers ==
  { Timeout("timed out"),
    Http(404, NoneTok, Body("json", Garbage)),
    Http(500, NoneTok, Body("json", Garbage)),
    Http(200, NoneTok, Body("json", Garbage)),
    Http(200, NoneTok,
         Body("sse", JDict([error |-> JDict([message |-> JStr("denied"),
                                             code |-> JNum(7)])]))),
    Http(200, NoneTok, Body("json", JDict([error |-> JStr("x")]))) }
ToolReplies(m) ==
  ErrorAnswers
    \cup {Answer(v) : v \in IF m = "tools/list" THEN ListResults ELSE CallResults}

\* keyword arguments the agent calls an operation with
ToolKwargs ==
  { <<KV("symbol", JStr("VCB"))>>,
    <<KV("symbol", JStr("VCB")), KV("output_format", JStr("csv"))>>,
    <<KV("symbols", JStr("VCB"))>>,
    <<KV("symbols", JList(<<JStr("VCB"), JStr("FPT")>>))>>,
    <<KV("stock", JStr("VCB"))>>,
    <<>> }

SeqCollect(c) == Quiet(c) /\ StartCollect(c)
SeqTool(c, i, kwargs, now) == Quiet(c) /\ StartTool(c, i, kwargs, now)

\* the agent is built (collect_all_tools) and its operations are called
NextTools ==
  \E c \in Callers :
    \/ SeqCollect(c)
    \/ \E i \in 1..Len(tools), kwargs \in ToolKwargs, now \in Clocks :
         SeqTool(c, i, kwargs, now)
    \/ HsPost(c, ConcHsResponses)
    \/ HsSleep(c)
    \/ HsAck(c)
    \/ RpcPost(c, ToolReplies(cs[c].method))
    \/ Finish(c)
SpecTools == Init /\ [][NextTools]_vars

\* -------------------------------------------- the normalizer on its own
MaxKwargs == 2     \* keyword arguments of one call

RECURSIVE KwargsOfLen(_)
KwargsOfLen(n) ==
  IF n = 0 THEN {<<>>}
  ELSE {Append(kw, KV(k, v)) :
          kw \in KwargsOfLen(n - 1), k \in ArgKeys, v \in ArgValues}
DistinctKeys(kw) == \A i, j \in 1..Len(kw) : kw[i].k = kw[j].k => i = j
ArgKwargs ==
  {kw \in UNION {KwargsOfLen(n) : n \in 1..MaxKwargs} : DistinctKeys(kw)}

InitArgs ==
  /\ session_id = NoneTok
  /\ calls = 0
  /\ cs = [c \in Callers |-> IdleFrame]
  /\ current_user_id = NoUserId
  /\ rq = [r \in Requests |-> IdleRequest]
  /\ tools = <<>>
  /\ na \in {[NoArgs EXCEPT !.stage = "in", !.tool_name = t, !.properties = pr,
                            !.kwargs = kw] :
               t \in ArgTools, pr \in ArgProperties, kw \in ArgKwargs}

\* _process_arguments(tool_name, properties, tool_param_mapping, **kwargs)
Normalize ==
  /\ na.stage = "in"
  /\ na' = [na EXCEPT !.stage = "out",
                      !.out = ProcessArguments(na.tool_name, na.properties,
                                GetToolParamMapping(na.properties, na.tool_name),
                                na.kwargs)]
  /\ UNCHANGED <<session_id, calls, cs, tools, current_user_id, rq>>
\* the same call on what the first one returned
NormalizeAgain ==
  /\ na.stage = "out"
  /\ na' = [na EXCEPT !.stage = "again",
                      !.again = ProcessArguments(na.tool_name, na.properties,
                                  GetToolParamMapping(na.properties, na.tool_name),
                                  na.out)]
  /\ UNCHANGED <<session_id, calls, cs, tools, current_user_id, rq>>
NextArgs == Normalize \/ NormalizeAgain
SpecArgs == InitArgs /\ [][NextArgs]_vars

\* ------------------------------------------------------------ properties
Traced == {c \in Callers : cs[c].traced}
InHandshake(c) == cs[c].pc \in {"hs_post", "hs_sleep", "hs_ack"}
InitReqs(log) == {i \in 1..Len(log) : log[i].m = "initialize"}
RpcReqs(log) == {i \in 1..Len(log) : log[i].m \in Methods}
IsErrorMapping(v) == v.t = "dict" /\ "error" \in DOMAIN v.kv

\* C1: a call of initialize_session that finds a session sends nothing and
\* returns the cached token; the token a call returned is the cached one, and
\* the cached token never changes afterwards.
C1_SessionReuseState ==
  \A c \in Traced :
    LET s == cs[c] IN
    s.op = "init" /\ s.pc = "done" =>
      /\ ~Falsy(s.entry) => s.hsReqs = 0 /\ s.sent = <<>> /\ s.ret = RetTok(s.entry)
      /\ ~Falsy(s.ret.tok) => session_id = s.ret.tok
C1_SessionReuse ==
  /\ []C1_SessionReuseState
  /\ [][~Falsy(session_id) => session_id' = session_id]_vars
C1_Witness ==
  \E c \in Traced :
    /\ cs[c].op = "init" /\ cs[c].pc = "done"
    /\ ~Falsy(cs[c].entry) /\ cs[c].ret = RetTok(cs[c].entry)

\* C2: at most one caller is inside the handshake at any time, and no two
\* overlapping calls have both written the session token.
C2_SingleFlight ==
  /\ Cardinality({c \in Callers : InHandshake(c)}) <= 1
  /\ Cardinality({c \in Callers : ~Falsy(cs[c].held)}) <= 1

\* C3: against a peer whose handshake requests all time out, initialize_session
\* with max_retries = N sends exactly N requests, one per attempt, returns None
\* and leaves the session absent.
C3_BoundedRetries ==
  \A c \in Traced :
    LET s == cs[c] IN
    s.op = "init" /\ s.pc = "done" /\ Falsy(s.entry) /\ s.allTimeout =>
      /\ s.hsReqs = s.max_retries
      /\ s.max_retries > 0 => s.attempt = s.max_retries - 1
      /\ s.ret = RetTok(NoneTok)
      /\ session_id = NoneTok
C3_Witness ==
  \E c \in Traced :
    /\ cs[c].op = "init" /\ cs[c].pc = "done" /\ cs[c].allTimeout
    /\ cs[c].max_retries = DefaultMaxRetries /\ cs[c].hsReqs = DefaultMaxRetries

\* sum of 2^i for i < k
RECURSIVE SumPow(_)
SumPow(k) == IF k <= 0 THEN 0 ELSE 2 ^ (k - 1) + SumPow(k - 1)

AllTimedOut(c) ==
  /\ cs[c].op = "init" /\ cs[c].pc = "done"
  /\ Falsy(cs[c].entry) /\ cs[c].allTimeout
FailedOver(s) ==
  /\ Len(s.sent) >= 2
  /\ s.sent[1] = Req("initialize", 1, NoneTok, "404", NoneTok, NoParams)
  /\ s.sent[2].m = "initialize" /\ s.sent[2].ep = "/" /\ s.sent[2].reply = "accept"
C5_RouteFailover ==
  \A c \in Traced :
    LET s == cs[c] IN
    FailedOver(s) =>
      /\ s.pc \in {"hs_ack", "rpc_post", "done"}
      /\ InitReqs(s.sent) = {1, 2}
      /\ s.held = s.sent[2].hdr /\ session_id = s.held /\ ~Falsy(s.held)
      /\ s.slept = SumPow(s.attempt)
      /\ s.op = "init" /\ s.pc = "done" => s.ret = RetTok(s.held)
C5_Witness ==
  \E c \in Traced :
    FailedOver(cs[c]) /\ cs[c].op = "init" /\ cs[c].pc = "done" /\ cs[c].attempt = 0

\* C6: a caller about to send an RPC request has a session token to attach, every
\* RPC request sent carried a token, the token is only ever written by an
\* accepted handshake reply, and a call_jsonrpc whose handshake failed sent no
\* RPC request and returned the tagged session error for its method.
C6_State ==
  /\ \A c \in Callers : cs[c].pc = "rpc_post" => ~Falsy(session_id)
  /\ \A c \in Traced :
       LET s == cs[c] IN
       /\ \A i \in RpcReqs(s.sent) : ~Falsy(s.sent[i].tok)
       /\ s.op = "rpc" /\ s.pc = "done" /\ Falsy(s.entry) /\ Falsy(s.held) =>
            /\ RpcReqs(s.sent) = {}
            /\ s.ret = RetVal(ErrSession(s.method))
C6_NoRpcWithoutSession ==
  /\ []C6_State
  /\ [][session_id' # session_id =>
          \E c \in Callers : /\ cs[c].pc = "hs_post" /\ cs'[c].pc = "hs_ack"
                             /\ cs'[c].held = session_id' /\ ~Falsy(session_id')]_vars
C6_Witness ==
  \E c \in Traced :
    /\ cs[c].op = "rpc" /\ cs[c].pc = "done" /\ Falsy(cs[c].entry)
    /\ ~Falsy(cs[c].held) /\ RpcReqs(cs[c].sent) # {}

\* C7: call_jsonrpc always returns a value, and after a failure (a failed
\* handshake, or a last reply that is a failure) the value is a mapping with
\* an error key.
FailurePath(s) ==
  \/ RpcReqs(s.sent) = {}
  \/ s.sent[Len(s.sent)].reply = "failure"
C7_NoExceptionEscapes ==
  /\ \A c \in Callers : cs[c].op = "rpc" /\ cs[c].pc = "done" => cs[c].ret.k = "val"
  /\ \A c \in Traced :
       cs[c].op = "rpc" /\ cs[c].pc = "done" /\ FailurePath(cs[c]) =>
         IsErrorMapping(cs[c].ret.v)
C7_Witness ==
  \E c \in Traced :
    /\ cs[c].op = "rpc" /\ cs[c].pc = "done" /\ RpcReqs(cs[c].sent) # {}
    /\ cs[c].ret.v.t = "dict" /\ "note" \in DOMAIN cs[c].ret.v.kv

\* C8: when collect_all_tools ends with the handshake failed, its list holds
\* for each of the six well-known names exactly one operation published under
\* that name, and it is a stub; a stub, whatever its arguments and however
\* often it is called, has returned at once a mapping with an error naming the
\* capability, a message naming the configured peer address and the
\* capability under tool, without raising and without sending any request.
Published(list, name) == {j \in 1..Len(list) : list[j].name = name}
HandshakeFailed(s) == Falsy(s.entry) /\ Falsy(s.held) /\ Falsy(session_id)
C8_StubDegradation ==
  \A c \in Traced :
    LET s == cs[c] IN
    /\ s.op = "collect" /\ s.pc = "done" /\ HandshakeFailed(s) =>
         \A i \in 1..Len(CommonMcpTools) :
           /\ Cardinality(Published(s.ret.tools, CommonMcpTools[i])) = 1
           /\ \A j \in Published(s.ret.tools, CommonMcpTools[i]) :
                s.ret.tools[j].kind = "stub"
    /\ s.op = "tool" /\ s.tool.kind = "stub" =>
         /\ s.pc = "done" /\ s.sent = <<>> /\ s.hsReqs = 0
         /\ s.ret.k = "val" /\ IsErrorMapping(s.ret.v)
         /\ Contains(s.ret.v.kv["error"].s, "'" \o s.tool.name \o "'")
         /\ Contains(s.ret.v.kv["message"].s, ServerUrl)
         /\ s.ret.v.kv["tool"] = JStr(s.tool.name)
C8_Witness ==
  \E c \in Traced :
    /\ cs[c].op = "tool" /\ cs[c].tool = Stub("get_price_board") /\ cs[c].pc = "done"
    /\ Falsy(session_id) /\ calls = MaxCalls
    /\ \A i \in 1..Len(CommonMcpTools) : tools[i] = Stub(CommonMcpTools[i])

\* the reduction of a result mapping: one text item gives its text, several
\* give their texts joined by newlines, otherwise the content (or the
\* top-level text, or the mapping itself) as it is
TextItems(content) ==
  SelectSeq(content.items, LAMBDA item : item.t = "dict" /\ "text" \in DOMAIN item.kv)
ReducedContent(v) ==
  IF "content" \in DOMAIN v.kv THEN
    LET content == v.kv["content"] IN
    IF content.t = "list" /\ TextItems(content) # <<>>
      THEN LET texts == TextItems(content) IN
           IF Len(texts) = 1 THEN texts[1].kv["text"]
           ELSE JStr(JoinLines([i \in 1..Len(texts) |-> texts[i].kv["text"].s]))
    ELSE content
  ELSE IF "text" \in DOMAIN v.kv THEN v.kv["text"]
  ELSE v
PrimaryFailed(s) ==
  /\ s.op = "tool" /\ s.tool.kind = "wrapped"
  /\ s.primary.d = "return" /\ IsErrorMapping(s.primary.v)
SecondaryReqs(s) ==
  {i \in 1..Len(s.sent) : s.sent[i].params.name = "get_quote_history_price"}
DeclaredArray(properties, p) ==
  /\ OHas(properties, p)
  /\ LET type == DictGet(OGet(properties, p), "type", JNull) IN
     \/ type = JStr("array")
     \/ type.t = "list" /\ \E i \in 1..Len(type.items) : type.items[i] = JStr("array")
C10_ArrayRoundTrip ==
  LET resolved == NormalizeKeys(na.kwargs,
                    GetToolParamMapping(na.properties, na.tool_name), <<>>)
  IN /\ na.stage \in {"out", "again"} =>
          \A i \in 1..Len(resolved) :
            LET p == resolved[i].k
                v == resolved[i].v
            IN DeclaredArray(na.properties, p) =>
                 /\ OHas(na.out, p)
                 /\ v.t = "str" => OGet(na.out, p) = JList(<<v>>)
                 /\ v.t = "list" => OGet(na.out, p) = v
     /\ na.stage = "again" =>
          \A i \in 1..Len(na.out) :
            DeclaredArray(na.properties, na.out[i].k) =>
              /\ OHas(na.again, na.out[i].k)
              /\ OGet(na.again, na.out[i].k) = na.out[i].v
C10_Witness ==
  /\ na.stage = "again"
  /\ na.properties = <<Prop("symbols", JStr("array"))>>
  /\ na.kwargs = <<KV("symbols", JStr("VCB"))>>
  /\ na.out = <<KV("symbols", JList(<<JStr("VCB")>>))>>
  /\ na.again = na.out

\* C11: for get_price_board, the argument symbol="VCB" alone is normalized to
\* symbols=["VCB"], whether the descriptor declares only symbols, only symbol,
\* or both (in either order).
PriceBoardForms ==
  { <<Prop("symbols", JStr("array"))>>,
    <<Prop("symbol", JStr("string"))>>,
    <<Prop("symbol", JStr("string")), Prop("symbols", JStr("array"))>>,
    <<Prop("symbols", JStr("array")), Prop("symbol", JStr("string"))>> }
C11_NamedAliasOverride ==
  /\ na.stage = "out" /\ na.tool_name = "get_price_board"
  /\ na.properties \in PriceBoardForms
  /\ na.kwargs = <<KV("symbol", JStr("VCB"))>>
  => na.out = <<KV("symbols", JList(<<JStr("VCB")>>))>>

\* C12: what a synthesized operation returns for a result of call_jsonrpc
\* that is neither an error mapping nor a string taken for an error.
SynthReturned(s) ==
  /\ s.op = "tool" /\ s.tool.kind = "synth" /\ s.pc = "done"
  /\ s.first.d = "return" /\ s.ret.k = "val"
  /\ ~IsErrorMapping(s.first.v)
  /\ ~(s.first.v.t = "str"
       /\ (Contains(Lower(s.first.v.s), "error") \/ Contains(Lower(s.first.v.s), "failed")
           \/ IsBlank(s.first.v.s)))
HasContentList(v) ==
  v.t = "dict" /\ "content" \in DOMAIN v.kv /\ v.kv["content"].t = "list"
JoinedTexts(texts) ==
  IF Len(texts) = 1 THEN texts[1] ELSE JStr(JoinLines([i \in 1..Len(texts) |-> texts[i].s]))
RECURSIVE ItemTexts(_)
ItemTexts(items) ==
  IF items = <<>> THEN <<>>
  ELSE LET item == Head(items) IN
       (CASE item.t = "dict" /\ "text" \in DOMAIN item.kv -> <<item.kv["text"]>>
          [] item.t = "dict" /\ "text" \notin DOMAIN item.kv
             /\ "type" \in DOMAIN item.kv /\ item.kv["type"] = JStr("text") -> <<JStr("")>>
          [] item.t = "str" -> <<item>>
          [] OTHER -> <<>>) \o ItemTexts(Tail(items))
RetriedFailures == {"status", "notoken", "timeout", "except"}
C13_FailuresRetried ==
  \A c \in Traced :
    LET s == cs[c] IN
    /\ s.op = "init" /\ s.pc = "done" /\ Falsy(s.entry) /\ s.max_retries >= 1
    /\ s.ret.k = "tok" /\ Falsy(s.ret.tok)
    /\ s.sent # <<>> /\ s.sent[Len(s.sent)].reply \in RetriedFailures
    => s.attempt = s.max_retries - 1

\* C14: once an RPC call that was sent with the cached token has ended because
\* the peer no longer accepts the token (the peer answers 404 on every route,
\* which is how it reports a session it does not know), the cached session id
\* is cleared.
SessionLost(s) ==
  /\ s.op = "rpc" /\ s.pc = "done" /\ ~Falsy(s.entry)
  /\ s.ret = RetVal(ErrHttp(404, RawText(Body("json", Garbage)), s.method, Len(ENDPOINTS)))
C14_SessionInvalidation ==
  \A c \in Traced : SessionLost(cs[c]) => Falsy(session_id)

\* C15: whatever value call_jsonrpc returned to a synthesized operation (a
\* mapping, a string, a list, null, a number), the operation returns a value:
\* it does not raise to its caller.
C15_NothingRaises ==
  \A c \in Traced :
    LET s == cs[c] IN
    /\ s.op = "tool" /\ s.tool.kind = "synth" /\ s.pc = "done"
    /\ s.first.d = "return"
    => s.ret.k = "val"

\* C16: when collect_all_tools returns with a session established, it
\* publishes no stub, and the MCP operations it publishes are those
\* synthesized from the catalog tools/list returned.
Stubs(list) == {j \in 1..Len(list) : list[j].kind = "stub"}
McpOperations(list) == SelectSeq(list, LAMBDA t : t.kind \in {"synth", "wrapped"})
C16_StubOnlyAfterExhaustion ==
  \A c \in Traced :
    LET s == cs[c] IN
    s.op = "collect" /\ s.pc = "done" /\ ~Falsy(session_id) =>
      /\ Stubs(s.ret.tools) = {}
      /\ s.first.d = "return"
      /\ McpOperations(s.ret.tools) = WrapToolsWithFallback(LoadTools(s.first))

\* C17: a synthesized operation whose descriptor declares symbol (and not
\* symbols) accepts a call that names its one argument symbols, stock, stocks
\* or symbol_list and sends it to the peer as symbol; one whose descriptor
\* declares symbols (and not symbol) accepts symbol, stock, stocks or
\* symbol_list and sends it as symbols.
Declares(tool, name) == \E i \in 1..Len(Properties(tool.schema)) :
                          Properties(tool.schema)[i].k = name
Canonical(tool) ==
  IF Declares(tool, "symbols") /\ ~Declares(tool, "symbol") THEN "symbols"
  ELSE IF Declares(tool, "symbol") /\ ~Declares(tool, "symbols") THEN "symbol"
  ELSE "none"
AliasesOf(canonical) ==
  {"symbol", "symbols", "stock", "stocks", "symbol_list"} \ {canonical}
CalledByAlias(s) ==
  /\ s.op = "tool" /\ s.tool.kind = "synth" /\ Canonical(s.tool) # "none"
  /\ Len(s.called) = 1 /\ s.called[1].k \in AliasesOf(Canonical(s.tool))
C17_GenericAliasAcceptance ==
  \A c \in Traced :
    LET s == cs[c] IN
    CalledByAlias(s) =>
      /\ s.params.name = s.tool.tool
      /\ OKeys(s.params.arguments) = {Canonical(s.tool)}

\* C18: an RPC call that tried every route candidate and was answered on each
\* with a status outside the success class (a 404 on each, or another failure
\* status on the last) returns the error "Failed to connect to MCP server"
\* that names the method and lists the routes tried.
RoutesExhausted(s) ==
  /\ s.pc = "done" /\ s.method \in Methods /\ s.phase # "secondary"
  /\ Len(s.statuses) = Len(ENDPOINTS)
  /\ \A i \in 1..Len(s.statuses) : s.statuses[i] \in 300..599
C18_RouteExhaustion ==
  \A c \in Traced :
    RoutesExhausted(cs[c]) => cs[c].first = Return(ErrUnreachable(cs[c].method))

\* C19: the session id changes only in the step that handles an initialize
\* response with status 200, a token header and no error envelope, and the id
\* recorded is that response's token, one the peer issued; while a call that
\* found no session has had no such response (its attempts failed, timed out,
\* or the call was aborted during backoff), the session id is absent.
Completed(req) ==
  req.m = "initialize" /\ req.reply = "accept" /\ req.hdr \in Tokens
NotEstablished(s) == s.op # "none" /\ Falsy(s.entry) /\ Falsy(s.held)
C19_WriteStep ==
  session_id' # session_id =>
    /\ session_id' \in Tokens
    /\ \E c \in Callers :
         /\ cs[c].pc = "hs_post" /\ cs'[c].held = session_id'
         /\ cs[c].traced =>
              /\ cs'[c].sent # <<>>
              /\ Completed(cs'[c].sent[Len(cs'[c].sent)])
              /\ cs'[c].sent[Len(cs'[c].sent)].hdr = session_id'
C19_TokenOnlyByHandshake ==
  /\ [](session_id \in Tokens \cup {NoneTok})
  /\ [](\A c \in Traced : NotEstablished(cs[c]) => session_id = NoneTok)
  /\ [][C19_WriteStep]_vars
C19_Witness ==
  \E c \in Traced :
    /\ cs[c].pc = "done" /\ cs[c].ret = Raised("KeyboardInterrupt")
    /\ cs[c].hsReqs >= 2 /\ cs[c].slept > 0
    /\ NotEstablished(cs[c]) /\ session_id = NoneTok

\* C20: once the primary call of the intraday wrapper has ended, the wrapper
\* has called the closing-price fallback once if the primary outcome is an
\* exception, an error mapping or an empty value, and not at all otherwise, in
\* trading hours and outside them alike; a primary result that is none of
\* these is what the wrapper returns.
PrimaryEnded(s) == s.op = "tool" /\ s.tool.kind = "wrapped" /\ s.primary.d # "none"
EmptyValue(v) ==
  \/ v \in {JNull, JStr(""), JList(<<>>), EmptyDict, JNum(0), JBool(FALSE)}
  \/ v.t = "str" /\ IsBlank(v.s)
PrimaryUnusable(s) ==
  \/ s.primary.d = "raise"
  \/ s.primary.d = "return" /\ (IsErrorMapping(s.primary.v) \/ EmptyValue(s.primary.v))
C20_WitnessInHours ==
  \E c \in Traced :
    /\ PrimaryEnded(cs[c]) /\ cs[c].is_trading_hours
    /\ cs[c].primary.d = "return" /\ IsErrorMapping(cs[c].primary.v)
    /\ cs[c].nsecond = 1

\* C21: for every tool and every parameter declared as an array, a single
\* supplied value that is neither a str nor a list (and not None) is sent as
\* the one-element list holding str(value).
C21_ArrayCoercionOfOthers ==
  LET resolved == NormalizeKeys(na.kwargs,
                    GetToolParamMapping(na.properties, na.tool_name), <<>>)
  IN na.stage = "out" /\ Len(na.kwargs) = 1 =>
       LET p == resolved[1].k
           v == resolved[1].v
       IN DeclaredArray(na.properties, p) /\ v.t \notin {"str", "list", "null"} =>
            /\ OHas(na.out, p)
            /\ OGet(na.out, p) = JList(<<JStr(PyStr(v))>>)

\* C22: once the initialized notification of a handshake has failed to be
\* sent, initialize_session has returned the token it acquired, the session
\* id is that token, and the call neither sleeps nor sends another initialize
\* request: whatever it sends afterwards is an RPC request.
AckReqs(log) == {i \in 1..Len(log) : log[i].m = "notifications/initialized"}
AckFailed(s) == \E i \in AckReqs(s.sent) : s.sent[i].reply = "failed"
C22_AckFailureIgnored ==
  \A c \in Traced :
    LET s == cs[c] IN
    AckFailed(s) =>
      /\ ~Falsy(s.held) /\ session_id = s.held
      /\ s.pc \in {"rpc_post", "done"}
      /\ s.slept = SumPow(s.attempt)
      /\ \A i \in AckReqs(s.sent) : \A j \in (i + 1)..Len(s.sent) : s.sent[j].m \in Methods
      /\ s.op = "init" => s.pc = "done" /\ s.ret = RetTok(s.held)
C22_Witness ==
  \E c \in Traced :
    /\ AckFailed(cs[c]) /\ cs[c].op = "init" /\ cs[c].pc = "done"
    /\ cs[c].ret = RetTok(session_id) /\ session_id \in Tokens
    /\ cs[c].attempt = 1

\* C23: in the requests of one call since its last attempt began, every
\* initialized notification directly follows the accepted initialize response,
\* goes to the same route and carries that response's token; an accepted
\* initialize response is followed by exactly one notification (or the call is
\* about to send it); a call whose handshake failed has sent none; and an RPC
\* request of a call that made a handshake comes after the notification.
C23_AckOrdering ==
  \A c \in Traced :
    LET s == cs[c]
        log == s.sent
    IN /\ Cardinality(AckReqs(log)) <= 1
       /\ \A i \in AckReqs(log) :
            /\ i > 1 /\ Completed(log[i - 1])
            /\ log[i].ep = log[i - 1].ep
            /\ log[i].tok = log[i - 1].hdr /\ log[i].tok = s.held
       /\ \A i \in InitReqs(log) :
            log[i].reply = "accept" =>
              IF i = Len(log) THEN s.pc = "hs_ack" ELSE i + 1 \in AckReqs(log)
       /\ Falsy(s.held) => AckReqs(log) = {}
       /\ \A j \in RpcReqs(log) :
            InitReqs(log) # {} => \E i \in AckReqs(log) : i < j
C23_Witness ==
  \E c \in Traced :
    LET log == cs[c].sent IN
    /\ cs[c].op = "rpc" /\ cs[c].pc = "done" /\ Len(log) = 4
    /\ log[1].reply = "404" /\ Completed(log[2])
    /\ log[3].m = "notifications/initialized" /\ log[3].ep = "/"
    /\ log[3].tok = session_id
    /\ log[4].m \in Methods

\* C24: when call_jsonrpc returned to a synthesized operation a string that
\* contains "error" or "failed" in any letter case, or that is empty or white
\* space only, the operation returns the mapping {error, tool} naming its
\* capability, the error being the string (or "Empty response" for a blank
\* one), and not the string itself.
LooksLikeError(text) ==
  \/ Contains(Lower(text), "error") \/ Contains(Lower(text), "failed")
  \/ IsBlank(text)
C24_ErrorLookingSuccess ==
  \A c \in Traced :
    LET s == cs[c] IN
    /\ s.op = "tool" /\ s.tool.kind = "synth" /\ s.pc = "done"
    /\ s.first.d = "return" /\ s.first.v.t = "str" /\ LooksLikeError(s.first.v.s)
    => /\ s.ret.k = "val" /\ IsErrorMapping(s.ret.v)
       /\ DOMAIN s.ret.v.kv = {"error", "tool"}
       /\ s.ret.v.kv["tool"] = JStr(s.tool.name)
       /\ s.ret.v.kv["error"] =
            IF IsBlank(s.first.v.s) THEN JStr("Empty response") ELSE s.first.v
C24_Witness ==
  \E c \in Traced :
    /\ cs[c].op = "tool" /\ cs[c].tool.kind = "synth" /\ cs[c].pc = "done"
    /\ cs[c].first = Return(JStr("Request FAILED"))
    /\ cs[c].ret = RetVal(SynthTextError(cs[c].tool.name, "Request FAILED"))

\* C25: when collect_all_tools has fetched a catalog, the MCP operations that
\* load_tools built are either none or one for every named descriptor of the
\* catalog, in catalog order; never some of them only.
NamedDescriptors(items) ==
  SelectSeq(items, LAMBDA d : d.t = "dict" /\ "name" \in DOMAIN d.kv /\ Truthy(d.kv["name"]))
FetchedCatalog(s) ==
  /\ s.op = "collect" /\ s.pc = "done" /\ s.first.d = "return"
  /\ s.first.v.t = "dict" /\ "tools" \in DOMAIN s.first.v.kv
  /\ s.first.v.kv["tools"].t = "list"
C25_CatalogAllOrNothing ==
  \A c \in Traced :
    LET s == cs[c] IN
    FetchedCatalog(s) =>
      LET ops == McpOperations(s.ret.tools)
          named == NamedDescriptors(s.first.v.kv["tools"].items)
      IN \/ ops = <<>>
         \/ /\ Len(ops) = Len(named)
            /\ \A i \in 1..Len(ops) : JStr(ops[i].tool) = named[i].kv["name"]

\* ------------------------------------------- chat requests and backend tools
\* user ids a chat request may carry; meta without user_id gives "user-unknown"
UserIds == {"u1", "u2"}
UserUnknown == "user-unknown"
\* backend tools that resolve the user id themselves when called without userId
UserTools ==
  {"create_transaction", "get_transaction_history", "get_transaction_stats",
   "get_user_profile"}

\* backend_tools._extract_user_id_from_message() called without a message
ExtractUserIdFromMessage(global_user_id) ==
  IF global_user_id # NoUserId THEN global_user_id ELSE NoUserId

\* chat.py lines 743-768: _run_agent up to the start of the agent's thread; ok
\* tells whether _ensure_session succeeded (otherwise HTTPException 500)
RunAgent(r, user_id, ok) ==
  /\ rq[r].pc = "idle"
  /\ current_user_id' = IF user_id # UserUnknown THEN user_id ELSE current_user_id
  /\ rq' = [rq EXCEPT ![r] = [IdleRequest EXCEPT !.user_id = user_id,
                                                 !.pc = IF ok THEN "running" ELSE "done"]]
  /\ UNCHANGED <<session_id, calls, cs, tools, na>>

\* the agent of request r calls a backend tool (backend_tools.py lines 258-266,
\* 304-305, 332-333, 362-363): `if not userId: userId = _extract_...()`
BackendTool(r, tool, userId) ==
  /\ rq[r].pc = "running"
  /\ rq' = [rq EXCEPT ![r] =
        [@ EXCEPT !.tool = tool, !.userId = userId,
                  !.acted = IF userId # NoUserId THEN userId
                            ELSE ExtractUserIdFromMessage(current_user_id)]]
  /\ UNCHANGED <<session_id, calls, cs, tools, na, current_user_id>>

\* _run_blocking ends and _run_agent returns the reply
AgentReturns(r) ==
  /\ rq[r].pc = "running"
  /\ rq' = [rq EXCEPT ![r] = [@ EXCEPT !.pc = "done"]]
  /\ UNCHANGED <<session_id, calls, cs, tools, na, current_user_id>>

\* the response is sent and the handler is free for the next request
RequestEnds(r) ==
  /\ rq[r].pc = "done"
  /\ rq' = [rq EXCEPT ![r] = IdleRequest]
  /\ UNCHANGED <<session_id, calls, cs, tools, na, current_user_id>>

\* whether no other request is being handled
Alone(r) == \A q \in Requests \ {r} : rq[q].pc = "idle"
SeqRunAgent(r, user_id, ok) == Alone(r) /\ RunAgent(r, user_id, ok)

\* chat requests handled concurrently: the agent runs in a thread
\* (asyncio.to_thread) while the event loop accepts the next request
NextChat ==
  \E r \in Requests :
    \/ \E user_id \in UserIds \cup {UserUnknown}, ok \in BOOLEAN : RunAgent(r, user_id, ok)
    \/ \E tool \in UserTools, userId \in UserIds \cup {NoUserId} : BackendTool(r, tool, userId)
    \/ AgentReturns(r)
    \/ RequestEnds(r)
SpecChat == Init /\ [][NextChat]_vars

\* chat requests handled one after the other
NextChatSeq ==
  \E r \in Requests :
    \/ \E user_id \in UserIds \cup {UserUnknown}, ok \in BOOLEAN :
         SeqRunAgent(r, user_id, ok)
    \/ \E tool \in UserTools, userId \in UserIds \cup {NoUserId} : BackendTool(r, tool, userId)
    \/ AgentReturns(r)
    \/ RequestEnds(r)
SpecChatSeq == Init /\ [][NextChatSeq]_vars

\* C26: with chat requests handled concurrently, a backend tool called without
\* userId while handling a request that carries a user id resolves that
\* request's user id.
CalledWithoutUserId(q) == q.tool \in UserTools /\ q.userId = NoUserId
C26_UserIsolation ==
  \A r \in Requests :
    CalledWithoutUserId(rq[r]) /\ rq[r].user_id \in UserIds =>
      rq[r].acted = rq[r].user_id

\* C27: with chat requests handled one after the other, a backend tool called
\* without userId while handling a request that carries no user id resolves
\* no user id.
C27_NoStaleUser ==
  \A r \in Requests :
    CalledWithoutUserId(rq[r]) /\ rq[r].user_id = UserUnknown =>
      rq[r].acted = NoUserId

\* C28: a synthesized operation whose descriptor declares both symbol and
\* symbols, called with symbols alone, sends symbols as the supplied value
\* normalized: a str wrapped into a one-element list, a list as it is.
DeclaresBoth(tool) == Declares(tool, "symbol") /\ Declares(tool, "symbols")
CalledWithSymbols(s) ==
  /\ s.op = "tool" /\ s.tool.kind = "synth" /\ DeclaresBoth(s.tool)
  /\ Len(s.called) = 1 /\ s.called[1].k = "symbols"
  /\ s.params.name = s.tool.tool
C28_CanonicalSurvives ==
  \A c \in Traced :
    LET s == cs[c]
        v == s.called[1].v
    IN CalledWithSymbols(s) =>
         /\ OHas(s.params.arguments, "symbols")
         /\ OGet(s.params.arguments, "symbols") = IF v.t = "str" THEN JList(<<v>>) ELSE v

\* C29: when a synthesized operation is called with no argument at all, the
\* arguments sent to the peer hold, for every optional parameter that declares
\* no default, no value other than None; an omitted array parameter is not
\* sent as a one-element list.
OptionalNoDefault(tool) ==
  {p \in {Signature(tool.schema)[i].name : i \in 1..Len(Signature(tool.schema))} :
     \E i \in 1..Len(Signature(tool.schema)) :
       /\ Signature(tool.schema)[i].name = p
       /\ ~Signature(tool.schema)[i].nodefault
       /\ Signature(tool.schema)[i].default = JNull}
C29_OmittedStayAbsent ==
  \A c \in Traced :
    LET s == cs[c] IN
    /\ s.op = "tool" /\ s.tool.kind = "synth" /\ s.params.name = s.tool.tool
    /\ s.called = <<>>
    => \A p \in OptionalNoDefault(s.tool) :
         OHas(s.params.arguments, p) => OGet(s.params.arguments, p) = JNull

\* C30: the MCP operations collect_all_tools publishes are the operations
\* load_tools built, as many and in the same order, each published under the
\* name it had before wrapping; every operation not named
\* get_quote_intraday_price is the same operation as before; and wrapping the
\* published operations again changes nothing.
C30_WrappingPreservesCatalog ==
  \A c \in Traced :
    LET s == cs[c] IN
    s.op = "collect" /\ s.pc = "done" /\ s.first.d # "none" =>
      LET before == LoadTools(s.first)
          after == McpOperations(s.ret.tools)
      IN /\ Len(after) = Len(before)
         /\ \A i \in 1..Len(before) :
              /\ after[i].name = before[i].name
              /\ before[i].name # "get_quote_intraday_price" => after[i] = before[i]
         /\ WrapToolsWithFallback(after) = after

====
